---- MODULE Spec2Model ----
(***************************************************************************)
(* HTMLPageBreakSplitter (html_regex_page_splitter.py): splitting a text   *)
(* at page-break tags, writing the chunks as a JSON record, and            *)
(* reconstructing the text from the record.                                *)
(*                                                                         *)
(* A text is a sequence of lexemes, one per element of the sequence, and   *)
(* offsets count lexemes, 0-based as in the code.  The lexemes are the     *)
(* characters the code tells apart, with the multi-character tokens of     *)
(* the regular expressions taken as one lexeme each:                       *)
(*   "<"  ">"              the tag delimiters                              *)
(*   "S"                   the text  style\s*=\s*                          *)
(*   "Q"                   a quote (double quote)                          *)
(*   "T"                   a text one of page_break_patterns matches       *)
(*   "A"                   a text one of break_avoidance_patterns matches  *)
(*   " " "\t" "\n" "\r"    the four characters the segmenter walks over    *)
(*   "\\"                  a backslash                                     *)
(*   "x"                   any other character                             *)
(* The text of a JSON string also holds "n", "r", "t", the letters of the  *)
(* escapes.  The files are those of one call sequence: the input of        *)
(* process_file, the record file, the output of reconstruct_file.          *)
(***************************************************************************)
EXTENDS Integers, Sequences, FiniteSets, TLC

VARIABLES
    pc,             \* where the running call is
    input_file,     \* the file process_file is given: [exists, suffix, data]
    output_arg,     \* whether the call is given an output filename
    html_content,   \* html_content of split_html_by_regex / process_file
    chunks,         \* the list split_html_by_regex returns
    json_file,      \* the record file: [exists, valid, doc]
    data,           \* data of reconstruct_file, what json.load returns
    recon_content,  \* html_content of reconstruct_file
    output_file,    \* the file reconstruct_file writes: [exists, data]
    err,            \* the exception the call raised, or "none"
    input_read,     \* the running call has read its input file
    output_opened   \* the running call has opened its output file

vars == <<pc, input_file, output_arg, html_content, chunks, json_file, data,
          recon_content, output_file, err, input_read, output_opened>>

\* ------------------------------------------------------------------ bounds

\* Longest input, in pieces (a piece is one character or one whole tag).
MaxPieces == 3

\* Longest chunk list of a record file given to reconstruct_file directly.
MaxChunks == 3

\* break_text[:200]
PreviewLen == 200

\* ------------------------------------------------------- text primitives

\* text[i], 0-based
CharAt(text, i) == text[i + 1]

\* text[i:j], 0-based, j exclusive
Slice(text, i, j) == SubSeq(text, i + 1, j)

\* break_text[:n]
Take(text, n) == IF Len(text) <= n THEN text ELSE SubSeq(text, 1, n)

SetMax(S) == CHOOSE m \in S : \A k \in S : k <= m

SetMin(S) == CHOOSE m \in S : \A k \in S : m <= k

\* line 84: in ('\n', '\r', ' ', '\t')
IsWs(c) == c \in {"\n", "\r", " ", "\t"}

\* --------------------------------------------------------- break locator

\* The end (exclusive) of tag_pattern's match with the style attribute at
\* offset a, or -1:  S Q [^Q]* T [^Q]* Q [^>]* >
\* The value ends at the first quote after the opening one and holds a
\* trigger; the tag ends at the first ">" after the closing quote.
AnchorEnd(text, a) ==
    LET n == Len(text)
        qs == {q \in (a + 2)..(n - 1) : CharAt(text, q) = "Q"}
    IN  IF a + 1 >= n \/ CharAt(text, a + 1) # "Q" \/ qs = {} THEN -1
        ELSE LET q == SetMin(qs)
                 es == {e \in (q + 1)..(n - 1) : CharAt(text, e) = ">"}
             IN  IF (\E t \in (a + 2)..(q - 1) : CharAt(text, t) = "T") /\ es # {}
                 THEN SetMin(es) + 1
                 ELSE -1

\* tag_pattern.match at offset s: the end (exclusive) of the match, or -1.
\* The leading [^>]* is greedy, so the last style attribute that leads to a
\* match is the one taken.
MatchEnd(text, s) ==
    LET n == Len(text)
        anchors == {a \in (s + 1)..(n - 1) :
                        /\ CharAt(text, a) = "S"
                        /\ \A k \in (s + 1)..(a - 1) : CharAt(text, k) # ">"
                        /\ AnchorEnd(text, a) # -1}
    IN  IF s >= n \/ CharAt(text, s) # "<" \/ anchors = {} THEN -1
        ELSE AnchorEnd(text, SetMax(anchors))

\* tag_pattern.finditer(html_content) from offset pos: the matches, leftmost
\* first, each search resuming at the end of the match before.
RECURSIVE FindIter(_, _)
FindIter(text, pos) ==
    LET starts == {s \in pos..(Len(text) - 1) : MatchEnd(text, s) # -1}
    IN  IF starts = {} THEN <<>>
        ELSE LET s == SetMin(starts)
                 e == MatchEnd(text, s)
             IN  <<[start |-> s, end |-> e]>> \o FindIter(text, e)

\* (a search that looks for the avoidance inside the style value only)
AvoidSearchStyleOnly(tag_content) ==
    \E i \in 1..Len(tag_content) :
        /\ tag_content[i] = "A"
        /\ \E a \in 1..(i - 1) : /\ tag_content[a] = "S"
                                 /\ \A k \in (a + 2)..i : tag_content[k] # "Q"

\* line 65: self.avoid_regex.search(tag_content)
AvoidSearch(tag_content) == \E i \in 1..Len(tag_content) : tag_content[i] = "A"

\* lines 63-66: the (match.start(), match.group()) of the matches whose
\* group(1) holds no avoidance
RECURSIVE KeepBreaks(_, _)
KeepBreaks(text, ms) ==
    IF ms = <<>> THEN <<>>
    ELSE LET m == Head(ms)
             tag_content == Slice(text, m.start + 1, m.end - 1)
         IN  (IF ~AvoidSearch(tag_content)
              THEN <<[pos |-> m.start, text |-> Slice(text, m.start, m.end)]>>
              ELSE <<>>) \o KeepBreaks(text, Tail(ms))

\* list.sort(key=...) and sorted(..., key=...): a stable sort of the entries
\* by their keys, here by insertion.  An entry is [key |-> k, val |-> v].
RECURSIVE InsertByKey(_, _)
InsertByKey(sorted, x) ==
    IF sorted = <<>> THEN <<x>>
    ELSE IF x.key < Head(sorted).key THEN <<x>> \o sorted
    ELSE <<Head(sorted)>> \o InsertByKey(Tail(sorted), x)

RECURSIVE SortByKey(_)
SortByKey(xs) ==
    IF xs = <<>> THEN <<>>
    ELSE InsertByKey(SortByKey(SubSeq(xs, 1, Len(xs) - 1)), xs[Len(xs)])

\* the values of the sorted entries
Vals(xs) == [i \in 1..Len(xs) |-> xs[i].val]

\* break_positions.sort(key=lambda x: x[0])
SortBreaks(bps) ==
    Vals(SortByKey([i \in 1..Len(bps) |-> [key |-> bps[i].pos, val |-> bps[i]]]))

\* lines 54-68: break_positions
BreakPositions(text) == SortBreaks(KeepBreaks(text, FindIter(text, 0)))

\* ------------------------------------------------------------ file input

\* open(input_path, 'r', encoding='utf-8', errors='ignore').read(): text
\* mode with the default newline=None, so "\r\n" and a lone "\r" are read
\* as "\n".  (Every lexeme decodes; errors='ignore' drops nothing here.)
RECURSIVE TranslateNewlines(_)
TranslateNewlines(raw) ==
    IF raw = <<>> THEN <<>>
    ELSE IF Head(raw) = "\r"
         THEN IF Len(raw) >= 2 /\ raw[2] = "\n"
              THEN <<"\n">> \o TranslateNewlines(SubSeq(raw, 3, Len(raw)))
              ELSE <<"\n">> \o TranslateNewlines(Tail(raw))
         ELSE <<Head(raw)>> \o TranslateNewlines(Tail(raw))

\* input_path.suffix.lower(), on the suffixes of the model
Lower(sfx) ==
    IF sfx = ".HTML" THEN ".html" ELSE IF sfx = ".HTM" THEN ".htm" ELSE sfx

\* (a check that takes any suffix)
SuffixOkAny(sfx) == TRUE

\* line 118: input_path.suffix.lower() in ['.html', '.htm']
SuffixOk(sfx) == Lower(sfx) \in {".html", ".htm"}

\* ------------------------------------------------------------------- JSON

\* json.dump(..., ensure_ascii=False) of a string: the characters between
\* the quotes.  A quote, a backslash and the control characters are
\* escaped; "n", "r", "t" are the letters of the escapes.
RECURSIVE JsonEscape(_)
JsonEscape(str) ==
    IF str = <<>> THEN <<>>
    ELSE LET c == Head(str)
             e == IF c = "Q" THEN <<"\\", "Q">>
                  ELSE IF c = "\\" THEN <<"\\", "\\">>
                  ELSE IF c = "\n" THEN <<"\\", "n">>
                  ELSE IF c = "\r" THEN <<"\\", "r">>
                  ELSE IF c = "\t" THEN <<"\\", "t">>
                  ELSE <<c>>
         IN  e \o JsonEscape(Tail(str))

\* json.load of a string: the characters the text between the quotes
\* stands for.
RECURSIVE JsonUnescape(_)
JsonUnescape(j) ==
    IF j = <<>> THEN <<>>
    ELSE IF Head(j) = "\\" /\ Len(j) >= 2
         THEN LET c == j[2]
                  d == IF c = "n" THEN "\n"
                       ELSE IF c = "r" THEN "\r"
                       ELSE IF c = "t" THEN "\t"
                       ELSE c
              IN  <<d>> \o JsonUnescape(SubSeq(j, 3, Len(j)))
         ELSE <<Head(j)>> \o JsonUnescape(Tail(j))

\* The strings of a chunk are 'content' and break_element_info's
\* 'break_text'; the other fields are numbers and booleans.
DumpInfo(info) ==
    [k \in DOMAIN info |->
        IF k = "break_text" THEN JsonEscape(info[k]) ELSE info[k]]

DumpChunk(c) ==
    [k \in DOMAIN c |->
        IF k = "content" THEN JsonEscape(c[k])
        ELSE IF k = "break_element_info" THEN DumpInfo(c[k])
        ELSE c[k]]

LoadInfo(info) ==
    [k \in DOMAIN info |->
        IF k = "break_text" THEN JsonUnescape(info[k]) ELSE info[k]]

LoadChunk(c) ==
    [k \in DOMAIN c |->
        IF k = "content" THEN JsonUnescape(c[k])
        ELSE IF k = "break_element_info" THEN LoadInfo(c[k])
        ELSE c[k]]

\* lines 146-147: json.dump(output_data, f, ...), the document in the file
JsonDump(doc) ==
    [k \in DOMAIN doc |->
        IF k = "chunks" THEN [i \in 1..Len(doc[k]) |-> DumpChunk(doc[k][i])]
        ELSE doc[k]]

\* lines 157-158: json.load(f) of a file that parses
JsonLoad(doc) ==
    [k \in DOMAIN doc |->
        IF k = "chunks" THEN [i \in 1..Len(doc[k]) |-> LoadChunk(doc[k][i])]
        ELSE doc[k]]

\* lines 127-144: output_data.  No lexeme sequence of the model holds a
\* <head> element, so head_content is "".
OutputData(content, cs) ==
    [metadata |-> [original_file |-> "doc.html",
                   total_pages |-> Len(cs),
                   file_size |-> Len(content),
                   parsing_method |-> "regex",
                   head_content |-> <<>>],
     chunks |-> cs]

\* ------------------------------------------------------------- segmenter

NoBreaksFound == [sentinel |-> "No breaks found"]

FinalChunkInfo == [sentinel |-> "Final chunk"]

\* (no walk back)
TrimPosNone(text, break_pos, last_pos) == break_pos

\* lines 83-85: temp_break_pos after the walk back over the whitespace
RECURSIVE TrimPos(_, _, _)
TrimPos(text, break_pos, last_pos) ==
    IF break_pos > last_pos /\ IsWs(CharAt(text, break_pos - 1))
    THEN TrimPos(text, break_pos - 1, last_pos)
    ELSE break_pos

\* (the next chunk starting at the trimmed position)
NextLastPosTrimmed(break_pos, temp_break_pos) == temp_break_pos

\* line 99: last_pos = break_pos
NextLastPos(break_pos, temp_break_pos) == break_pos

\* (every chunk of the loop marked as having a break before it)
BreakChunkAlwaysBefore(text, page_num, b, last_pos, temp_break_pos) ==
    [page |-> page_num,
     content |-> Slice(text, last_pos, temp_break_pos),
     has_break_before |-> TRUE,
     break_element_info |-> [break_text |-> Take(b.text, PreviewLen),
                             position |-> b.pos]]

\* lines 87-97: the chunk that ends at break b
BreakChunk(text, page_num, b, last_pos, temp_break_pos) ==
    [page |-> page_num,
     content |-> Slice(text, last_pos, temp_break_pos),
     has_break_before |-> page_num > 1,
     break_element_info |-> [break_text |-> Take(b.text, PreviewLen),
                             position |-> b.pos]]

\* lines 81-99: the loop over break_positions from index page_num on
RECURSIVE SplitLoop(_, _, _, _)
SplitLoop(text, bps, page_num, last_pos) ==
    IF page_num > Len(bps) THEN [chunks |-> <<>>, last_pos |-> last_pos]
    ELSE LET b == bps[page_num]
             temp_break_pos == TrimPos(text, b.pos, last_pos)
             rest == SplitLoop(text, bps, page_num + 1,
                               NextLastPos(b.pos, temp_break_pos))
         IN  [chunks |-> <<BreakChunk(text, page_num, b, last_pos, temp_break_pos)>>
                            \o rest.chunks,
              last_pos |-> rest.last_pos]

\* (the final chunk numbered like the last break)
FinalChunkSamePage(text, last_pos, n) ==
    LET final_chunk == Slice(text, last_pos, Len(text))
    IN  IF final_chunk # <<>>
        THEN <<[page |-> n, content |-> final_chunk,
                has_break_before |-> TRUE, break_element_info |-> FinalChunkInfo]>>
        ELSE <<>>

\* lines 102-109: the final chunk, when there is one; n = len(break_positions)
FinalChunk(text, last_pos, n) ==
    LET final_chunk == Slice(text, last_pos, Len(text))
    IN  IF final_chunk # <<>>
        THEN <<[page |-> n + 1, content |-> final_chunk,
                has_break_before |-> TRUE, break_element_info |-> FinalChunkInfo]>>
        ELSE <<>>

\* (an empty list when there is no break)
NoBreakResultEmpty(text) == <<>>

\* lines 70-76
NoBreakResult(text) ==
    <<[page |-> 1, content |-> text, has_break_before |-> FALSE,
       break_element_info |-> NoBreaksFound]>>

\* lines 51-111
split_html_by_regex(text) ==
    LET break_positions == BreakPositions(text)
    IN  IF break_positions = <<>> THEN NoBreakResult(text)
        ELSE LET loop == SplitLoop(text, break_positions, 1, 0)
             IN  loop.chunks \o FinalChunk(text, loop.last_pos, Len(break_positions))

\* ---------------------------------------------------------- reconstructor

RECURSIVE ConcatContent(_)
\* lines 164, 167-168: html_content += chunk['content'] over the chunks
ConcatContent(cs) ==
    IF cs = <<>> THEN <<>> ELSE Head(cs).content \o ConcatContent(Tail(cs))

\* (the chunks taken in the order of the list)
SortChunksNone(cs) == cs

\* line 165: sorted(data['chunks'], key=lambda x: x['page'])
SortChunks(cs) ==
    Vals(SortByKey([i \in 1..Len(cs) |-> [key |-> cs[i].page, val |-> cs[i]]]))


\* lines 160-168: a key reconstruct_file looks up is missing (KeyError)
HasKeyError(d, out_given) ==
    \/ ~out_given /\ ("metadata" \notin DOMAIN d
                        \/ "original_file" \notin DOMAIN d.metadata)
    \/ "chunks" \notin DOMAIN d
    \/ \E i \in 1..Len(d.chunks) : "page" \notin DOMAIN d.chunks[i]
    \/ \E i \in 1..Len(d.chunks) : "content" \notin DOMAIN d.chunks[i]

\* ------------------------------------------------------------ the inputs

\* One character, or one whole opening tag: a stray "<", a tag with no
\* style, with a trigger, with a trigger and an avoidance in the style
\* value, with a trigger and an avoidance in another attribute.
Pieces ==
    {<<"x">>, <<"\\">>, <<" ">>, <<"\t">>, <<"\n">>, <<"\r">>, <<"<">>,
     <<"<", "x", ">">>,
     <<"<", "S", "Q", "T", "Q", ">">>,
     <<"<", "S", "Q", "A", "T", "Q", ">">>,
     <<"<", "S", "Q", "T", "Q", "A", ">">>}

RECURSIVE Flatten(_)
Flatten(ps) == IF ps = <<>> THEN <<>> ELSE Head(ps) \o Flatten(Tail(ps))

TextsUpTo(n) == {Flatten(ps) : ps \in UNION {[1..k -> Pieces] : k \in 0..n}}

Texts == TextsUpTo(MaxPieces)

Suffixes == {".html", ".htm", ".HTML", ".txt", ""}

NoInput == [exists |-> FALSE, suffix |-> "", data |-> <<>>]

\* what stands for the text of a file that is missing or is not JSON
NoDoc == [unparsed |-> TRUE]

NoJson == [exists |-> FALSE, valid |-> FALSE, doc |-> NoDoc]

\* a file that is there before the call and does not parse as JSON
GarbageJson == [exists |-> TRUE, valid |-> FALSE, doc |-> NoDoc]

NoOutput == [exists |-> FALSE, data |-> <<>>]

\* an output file that is there before the call
StaleOutput == [exists |-> TRUE, data |-> <<"stale">>]

Meta == [original_file |-> "doc.html"]

Contents == {<<"A", "A", "A">>, <<"B", "B", "B">>}

\* A chunk of a record file, as reconstruct_file reads it: 'page' and
\* 'content', either of which may be missing.
Entries ==
    {[page |-> p, content |-> c] : p \in 1..MaxChunks, c \in Contents}
        \cup {[page |-> p] : p \in 1..MaxChunks}
        \cup {[content |-> c] : c \in Contents}

ChunkListsUpTo(n) == UNION {[1..k -> Entries] : k \in 0..n}

DocsUpTo(n) ==
    {[metadata |-> Meta, chunks |-> cs] : cs \in ChunkListsUpTo(n)}
        \cup {[chunks |-> cs] : cs \in ChunkListsUpTo(0)}
        \cup {[metadata |-> Meta]}

RecordFilesUpTo(n) ==
    {NoJson, GarbageJson}
        \cup {[exists |-> TRUE, valid |-> TRUE, doc |-> JsonDump(d)] : d \in DocsUpTo(n)}

\* ------------------------------------------------------------------ Init

Idle ==
    /\ html_content = <<>>
    /\ chunks = <<>>
    /\ data = <<>>
    /\ recon_content = <<>>
    /\ err = "none"
    /\ input_read = FALSE
    /\ output_opened = FALSE

\* a direct call of split_html_by_regex (tests, lines 29, 93, 108)
InitCall ==
    /\ pc = "call"
    /\ input_file = NoInput /\ json_file = NoJson /\ output_file = NoOutput
    /\ output_arg = TRUE
    /\ html_content \in Texts
    /\ chunks = <<>> /\ data = <<>> /\ recon_content = <<>>
    /\ err = "none" /\ input_read = FALSE /\ output_opened = FALSE

\* process_file on an HTML file, then reconstruct_file on what it wrote
\* (test_process_file_and_reconstruct)
InitProcess ==
    /\ pc = "pf_start"
    /\ \E t \in Texts : input_file = [exists |-> TRUE, suffix |-> ".html", data |-> t]
    /\ json_file = NoJson /\ output_file = NoOutput
    /\ output_arg = TRUE
    /\ Idle

\* process_file on any path
InitProcessAny ==
    /\ pc = "pf_start"
    /\ \/ \E t \in TextsUpTo(1), sfx \in Suffixes :
              input_file = [exists |-> TRUE, suffix |-> sfx, data |-> t]
       \/ \E sfx \in Suffixes : input_file = [NoInput EXCEPT !.suffix = sfx]
    /\ json_file \in {NoJson, GarbageJson} /\ output_file = NoOutput
    /\ output_arg \in BOOLEAN
    /\ Idle

\* reconstruct_file on any record file
InitReconstruct ==
    /\ pc = "rf_start"
    /\ input_file = NoInput
    /\ \/ /\ json_file \in RecordFilesUpTo(MaxChunks)
          /\ output_arg = TRUE /\ output_file = NoOutput
       \/ /\ json_file \in RecordFilesUpTo(1)
          /\ output_arg \in BOOLEAN /\ output_file \in {NoOutput, StaleOutput}
    /\ Idle

Init == InitCall \/ InitProcess \/ InitProcessAny \/ InitReconstruct

\* --------------------------------------------------------------- actions

Fail(where, e) == pc' = where /\ err' = e

\* line 29 of the tests: chunks = splitter.split_html_by_regex(html_content)
CallSplit ==
    /\ pc = "call"
    /\ chunks' = split_html_by_regex(html_content)
    /\ pc' = "returned"
    /\ UNCHANGED <<input_file, output_arg, html_content, json_file, data,
                   recon_content, output_file, err, input_read, output_opened>>

\* lines 115-117
PF_CheckExists ==
    /\ pc = "pf_start"
    /\ IF ~input_file.exists THEN Fail("pf_failed", "FileNotFoundError")
       ELSE pc' = "pf_suffix" /\ err' = err
    /\ UNCHANGED <<input_file, output_arg, html_content, chunks, json_file, data,
                   recon_content, output_file, input_read, output_opened>>

\* lines 118-119
PF_CheckSuffix ==
    /\ pc = "pf_suffix"
    /\ IF ~SuffixOk(input_file.suffix) THEN Fail("pf_failed", "ValueError")
       ELSE pc' = "pf_read" /\ err' = err
    /\ UNCHANGED <<input_file, output_arg, html_content, chunks, json_file, data,
                   recon_content, output_file, input_read, output_opened>>

\* lines 121-125
PF_Read ==
    /\ pc = "pf_read"
    /\ html_content' = TranslateNewlines(input_file.data)
    /\ input_read' = TRUE
    /\ pc' = "pf_split"
    /\ UNCHANGED <<input_file, output_arg, chunks, json_file, data,
                   recon_content, output_file, err, output_opened>>

\* lines 127-133
PF_Split ==
    /\ pc = "pf_split"
    /\ chunks' = split_html_by_regex(html_content)
    /\ pc' = "pf_write"
    /\ UNCHANGED <<input_file, output_arg, html_content, json_file, data,
                   recon_content, output_file, err, input_read, output_opened>>

\* lines 135-149
PF_Write ==
    /\ pc = "pf_write"
    /\ json_file' = [exists |-> TRUE, valid |-> TRUE,
                     doc |-> JsonDump(OutputData(html_content, chunks))]
    /\ output_opened' = TRUE
    /\ pc' = "pf_done"
    /\ UNCHANGED <<input_file, output_arg, html_content, chunks, data,
                   recon_content, output_file, err, input_read>>

\* lines 153-155; a new call, after process_file (test line 52) or first
RF_CheckExists ==
    /\ pc \in {"rf_start", "pf_done"}
    /\ input_read' = FALSE
    /\ output_opened' = FALSE
    /\ IF ~json_file.exists THEN Fail("rf_failed", "FileNotFoundError")
       ELSE pc' = "rf_load" /\ err' = err
    /\ UNCHANGED <<input_file, output_arg, html_content, chunks, json_file, data,
                   recon_content, output_file>>

\* lines 157-158
RF_Load ==
    /\ pc = "rf_load"
    /\ input_read' = TRUE
    /\ IF ~json_file.valid THEN Fail("rf_failed", "JSONDecodeError") /\ data' = data
       ELSE /\ data' = JsonLoad(json_file.doc)
            /\ pc' = "rf_concat"
            /\ err' = err
    /\ UNCHANGED <<input_file, output_arg, html_content, chunks, json_file,
                   recon_content, output_file, output_opened>>

\* lines 160-168
RF_Concat ==
    /\ pc = "rf_concat"
    /\ IF HasKeyError(data, output_arg)
       THEN Fail("rf_failed", "KeyError") /\ recon_content' = recon_content
       ELSE /\ recon_content' = ConcatContent(SortChunks(data.chunks))
            /\ pc' = "rf_write"
            /\ err' = err
    /\ UNCHANGED <<input_file, output_arg, html_content, chunks, json_file, data,
                   output_file, input_read, output_opened>>

\* lines 170-173
RF_Write ==
    /\ pc = "rf_write"
    /\ output_file' = [exists |-> TRUE, data |-> recon_content]
    /\ output_opened' = TRUE
    /\ pc' = "rf_done"
    /\ UNCHANGED <<input_file, output_arg, html_content, chunks, json_file, data,
                   recon_content, err, input_read>>

Next ==
    \/ CallSplit
    \/ PF_CheckExists
    \/ PF_CheckSuffix
    \/ PF_Read
    \/ PF_Split
    \/ PF_Write
    \/ RF_CheckExists
    \/ RF_Load
    \/ RF_Concat
    \/ RF_Write

Spec == Init /\ [][Next]_vars

\* ------------------------------------------------- what the claims speak of

\* split_html_by_regex has just returned chunks for html_content
HasSplit == pc \in {"returned", "pf_write"}

WsChars == {" ", "\t", "\n", "\r"}

\* The opening tags of a text, as spans <<s, e>>: from a "<" that is not
\* inside a tag opened before it to the first ">" after it.
OpeningTags(text) ==
    {se \in (0..(Len(text) - 1)) \X (0..(Len(text) - 1)) :
        /\ se[1] < se[2]
        /\ CharAt(text, se[1]) = "<"
        /\ CharAt(text, se[2]) = ">"
        /\ \A k \in se[1]..(se[2] - 1) : CharAt(text, k) # ">"
        /\ ~\E s2 \in 0..(se[1] - 1) :
               /\ CharAt(text, s2) = "<"
               /\ \A k \in s2..(se[1] - 1) : CharAt(text, k) # ">"}

\* the tag has a style attribute whose quoted value holds a trigger
TagHasTrigger(text, se) ==
    \E a \in (se[1] + 1)..(se[2] - 1), t \in (se[1] + 1)..(se[2] - 1),
       q \in (se[1] + 1)..(se[2] - 1) :
        /\ a + 1 < t /\ t < q
        /\ CharAt(text, a) = "S" /\ CharAt(text, a + 1) = "Q"
        /\ CharAt(text, t) = "T" /\ CharAt(text, q) = "Q"
        /\ \A k \in (a + 2)..(q - 1) : CharAt(text, k) # "Q"

\* the tag holds an avoidance anywhere
TagHasAvoid(text, se) ==
    \E k \in (se[1] + 1)..(se[2] - 1) : CharAt(text, k) = "A"

\* the offsets of the tags with a trigger and no avoidance
BreakTagStarts(text) ==
    {se[1] : se \in {x \in OpeningTags(text) :
                        TagHasTrigger(text, x) /\ ~TagHasAvoid(text, x)}}

\* the offsets of the tags with a trigger and an avoidance
AvoidedTagStarts(text) ==
    {se[1] : se \in {x \in OpeningTags(text) :
                        TagHasTrigger(text, x) /\ TagHasAvoid(text, x)}}

\* the chunks that end at a break, and the break offsets they record
BreakChunkIndexes(cs) ==
    {i \in 1..Len(cs) : "position" \in DOMAIN cs[i].break_element_info}

ChunkBreakOffsets(cs) ==
    {cs[i].break_element_info.position : i \in BreakChunkIndexes(cs)}

\* segment i's source slice [SegStart, SegEnd): it starts at 0 or at the
\* offset the chunk before it records, and is as long as its content
SegStart(cs, i) == IF i = 1 THEN 0 ELSE cs[i - 1].break_element_info.position

SegEnd(cs, i) == SegStart(cs, i) + Len(cs[i].content)

\* the break offset before b, or 0; B is the set of break offsets
PrevBreak(B, b) == SetMax({0} \cup {s \in B : s < b})

\* the offsets of the whitespace runs that end at a break offset of B
RunOffsets(text, B) ==
    {k \in 0..(Len(text) - 1) :
        \E b \in B :
            /\ PrevBreak(B, b) <= k /\ k < b
            /\ \A j \in k..(b - 1) : CharAt(text, j) \in WsChars}

\* the text without the characters at the offsets of D
RECURSIVE Without(_, _, _)
Without(text, D, k) ==
    IF k >= Len(text) THEN <<>>
    ELSE (IF k \in D THEN <<>> ELSE <<CharAt(text, k)>>) \o Without(text, D, k + 1)

RECURSIVE SumLen(_)
SumLen(cs) == IF cs = <<>> THEN 0 ELSE Len(Head(cs).content) + SumLen(Tail(cs))

\* the contents of a set of chunks with distinct pages, lowest page first
RECURSIVE AscendingContent(_)
AscendingContent(S) ==
    IF S = {} THEN <<>>
    ELSE LET c == CHOOSE x \in S : \A y \in S : x.page <= y.page
         IN  c.content \o AscendingContent(S \ {c})

\* the list cs in the order f
Permuted(cs, f) == [i \in 1..Len(cs) |-> cs[f[i]]]

\* ----------------------------------------------------------------- claims

\* C1: splitting a text with process_file and reconstructing it with
\* reconstruct_file gives back the text, character for character.
C1_RoundTripExact ==
    (pc = "rf_done" /\ input_file.exists) => output_file.data = html_content

\* C2: the whitespace run before a break is the end of the content of the
\* segment that ends at this break: the segment runs from the previous
\* break offset (or 0) up to the break offset.
C2_RunInEarlierSegment ==
    HasSplit =>
        \A i \in BreakChunkIndexes(chunks) :
            chunks[i].content =
                Slice(html_content, SegStart(chunks, i),
                      chunks[i].break_element_info.position)

\* C3: the breaks are exactly the tags with a trigger in the style value
\* and no avoidance anywhere in the tag; a tag with both gives none, also
\* when it comes first.
C3_AvoidancePrecedence ==
    HasSplit =>
        LET B == BreakTagStarts(html_content) IN
        /\ ChunkBreakOffsets(chunks) = B
        /\ Cardinality(BreakChunkIndexes(chunks)) = Cardinality(B)
        /\ ChunkBreakOffsets(chunks) \cap AvoidedTagStarts(html_content) = {}

C3_Witness ==
    /\ HasSplit
    /\ \E a \in AvoidedTagStarts(html_content), s \in ChunkBreakOffsets(chunks) : a < s

\* C4: with no break tag left, the result is one segment: page 1, the whole
\* text, no break before, the 'No breaks found' sentinel.
C4_NoBreakIdentity ==
    (HasSplit /\ BreakTagStarts(html_content) = {}) =>
        chunks = <<[page |-> 1, content |-> html_content,
                    has_break_before |-> FALSE,
                    break_element_info |-> [sentinel |-> "No breaks found"]]>>

C4_Witness ==
    /\ HasSplit
    /\ BreakTagStarts(html_content) = {}
    /\ AvoidedTagStarts(html_content) # {}
    /\ Len(chunks) = 1

\* C5: the pages are 1, 2, ..., K in list order, K >= 1, and
\* has_break_before is true of every segment but page 1.
C5_PageContiguity ==
    HasSplit =>
        /\ Len(chunks) >= 1
        /\ \A i \in 1..Len(chunks) :
              /\ chunks[i].page = i
              /\ chunks[i].has_break_before = (chunks[i].page # 1)

C5_Witness == HasSplit /\ Len(chunks) >= 3 /\ chunks[3].page = 3

\* C6: the segments are slices [start_i, end_i) of the text with
\* 0 = start_1 <= end_1 <= start_2 <= ... <= end_K = len(T), and start_(i+1)
\* is the offset of the "<" of the i-th break tag.
C6_MonotonicBoundaries ==
    HasSplit =>
        LET K == Len(chunks)
            B == BreakTagStarts(html_content)
        IN
        /\ \A i \in 1..K :
              /\ SegStart(chunks, i) <= SegEnd(chunks, i)
              /\ SegEnd(chunks, i) <= Len(html_content)
              /\ chunks[i].content
                    = Slice(html_content, SegStart(chunks, i), SegEnd(chunks, i))
        /\ \A i \in 1..(K - 1) :
              /\ SegEnd(chunks, i) <= SegStart(chunks, i + 1)
              /\ CharAt(html_content, SegStart(chunks, i + 1)) = "<"
              /\ SegStart(chunks, i + 1) \in B
              /\ Cardinality({s \in B : s < SegStart(chunks, i + 1)}) = i - 1
        /\ K >= 1 => SegEnd(chunks, K) = Len(html_content)

C6_Witness ==
    /\ HasSplit
    /\ Len(chunks) >= 3
    /\ SegEnd(chunks, 2) < SegStart(chunks, 3)

\* C7: reconstruct_file writes the contents of the chunks in ascending page
\* order and nothing else, whatever the order of the list: every
\* permutation of a list with distinct pages gives the same text.
C7_OrderIndependence ==
    (/\ pc = "rf_done"
     /\ \A i, j \in 1..Len(data.chunks) :
            i # j => data.chunks[i].page # data.chunks[j].page) =>
        /\ output_file.exists
        /\ output_file.data
              = AscendingContent({data.chunks[i] : i \in 1..Len(data.chunks)})
        /\ \A f \in Permutations(1..Len(data.chunks)) :
              ConcatContent(SortChunks(Permuted(data.chunks, f))) = output_file.data

C7_Witness ==
    /\ pc = "rf_done"
    /\ Len(data.chunks) = 2
    /\ data.chunks[1].page = 2 /\ data.chunks[1].content = <<"B", "B", "B">>
    /\ data.chunks[2].page = 1 /\ data.chunks[2].content = <<"A", "A", "A">>
    /\ output_file.data = <<"A", "A", "A", "B", "B", "B">>

\* C8: a call that fails has opened no output file, and has not read its
\* input when the path is missing or the suffix is wrong; the missing path
\* is reported before the wrong suffix; an output is opened only after the
\* input was read, parsed and concatenated.
C8_AllOrNothing ==
    /\ pc \in {"pf_failed", "rf_failed"} =>
          /\ ~output_opened
          /\ output_file \in {NoOutput, StaleOutput}
    /\ pc = "pf_failed" =>
          /\ json_file \in {NoJson, GarbageJson}
          /\ ~input_read
          /\ err = IF ~input_file.exists THEN "FileNotFoundError" ELSE "ValueError"
    /\ (/\ pc \in {"pf_start", "pf_suffix", "pf_read", "pf_split", "pf_write",
                   "pf_done", "pf_failed"}
        /\ \/ ~input_file.exists
           \/ input_file.suffix \notin {".html", ".htm", ".HTML"}) =>
          ~input_read /\ ~output_opened /\ pc \in {"pf_start", "pf_suffix", "pf_failed"}
    /\ (pc = "rf_failed" /\ err = "FileNotFoundError") => ~input_read
    /\ (/\ pc \in {"rf_load", "rf_concat", "rf_write", "rf_done", "rf_failed"}
        /\ \/ ~json_file.exists
           \/ ~json_file.valid
           \/ "chunks" \notin DOMAIN json_file.doc
           \/ \E i \in 1..Len(json_file.doc.chunks) :
                  \/ "page" \notin DOMAIN json_file.doc.chunks[i]
                  \/ "content" \notin DOMAIN json_file.doc.chunks[i]) =>
          ~output_opened /\ pc \notin {"rf_write", "rf_done"}
    /\ output_opened => input_read /\ pc \in {"pf_done", "rf_done"}

C8_Witness ==
    /\ pc = "pf_failed"
    /\ err = "ValueError"
    /\ input_file.exists
    /\ json_file = GarbageJson

====
